---- MODULE Spec2Model ----
(***************************************************************************)
(* Inventory stock and reservation ledger of the e-commerce support        *)
(* system: OrderDatabase in src/src/BusinessModel/models.py.               *)
(*                                                                         *)
(* The three tables the ledger uses (inventory, reservations,              *)
(* stock_movements) are the state.  Every store round trip (.execute())    *)
(* is one atomic step; a ledger operation is the sequence of its round     *)
(* trips, so that two callers can interleave between any two of them.      *)
(* Spec allows that interleaving, SpecSeq has a single caller, SpecQuery    *)
(* adds the queries to it and SpecFault store round trips that raise.        *)
(* SpecCatalog is the catalogue with its two listing queries, SpecFlow the   *)
(* purchase flow reserve, sell, release.                                     *)
(***************************************************************************)
EXTENDS Integers, Sequences, FiniteSets, TLC

\* ------------------------------------------------------------------ bounds
MaxCalls == 3
MaxStock == 1
MaxQty == 2
MaxDelta == 1
MaxTicks == 1

\* ------------------------------------------------------- program constants
\* timedelta(minutes=15) of reserve_stock
HoldMinutes == 15

\* -------------------------------------------------------------- input sets
\* the callers: each is a customer reserving for itself
Procs == {"CUST_A", "CUST_B"}
\* the caller of the runs in which no two calls overlap
Caller == "CUST_A"
\* P1 is seeded by setup_sample_inventory, P2 is added later or never
Seeded == "P1"
ProductIds == {Seeded, "P2"}
Stocks == 0..MaxStock
Thresholds == {1}
\* a price below zero and the least price that is not
Prices == {0 - 1, 0}
Quantities == (0 - 1)..MaxQty
Deltas == (0 - MaxDelta)..MaxDelta
Reasons == {"sale"}

VARIABLES
    inventory,        \* table inventory: product_id -> row
    reservations,     \* table reservations: row i has id i
    stock_movements,  \* table stock_movements (append only)
    now,              \* datetime.now(), in minutes
    pc,               \* per caller: where its call stands
    frame,            \* per caller: arguments and locals of its call
    ret,              \* per caller: what its last call returned
    base,             \* history: the tables when the running group of calls began
    wcalls,           \* history: calls begun since then
    ncalls,           \* history: calls begun in all
    hist              \* history: per reservation id, the call that made it, the
                      \* reserved_quantity that call read, decrements written for it

vars == <<inventory, reservations, stock_movements, now, pc, frame, ret,
          base, wcalls, ncalls, hist>>

\* ---------------------------------------------------------------- helpers
Max(a, b) == IF a >= b THEN a ELSE b

Tables == [inventory |-> inventory, reservations |-> reservations,
           stock_movements |-> stock_movements]

AllIdle == \A o \in Procs : pc[o] = "idle"

\* the reserved units are counted as available
AvailableIgnoresReserved(product) == product.stock_quantity

\* available = product["stock_quantity"] - product["reserved_quantity"]
Available(product) == product.stock_quantity - product.reserved_quantity

\* every product is flagged as in stock
IsInStockAlways(available) == TRUE

\* "is_in_stock": available > 0
IsInStock(available) == available > 0

\* a product at its threshold is not yet low
IsLowStockStrict(available, product) == available < product.low_stock_threshold

\* "is_low_stock": available <= product["low_stock_threshold"]
IsLowStock(available, product) == available <= product.low_stock_threshold

\* the result varies from call to call: it carries the count of calls made
GetProductCounted(product_id) ==
    IF product_id \in DOMAIN inventory
    THEN LET product == inventory[product_id]
             available == product.stock_quantity - product.reserved_quantity
         IN [success |-> TRUE,
             product_id |-> product_id,
             stock_quantity |-> product.stock_quantity,
             reserved_quantity |-> product.reserved_quantity,
             available_quantity |-> available,
             is_in_stock |-> available > 0,
             is_low_stock |-> available <= product.low_stock_threshold,
             low_stock_threshold |-> product.low_stock_threshold,
             is_active |-> product.is_active,
             served |-> ncalls]
    ELSE [success |-> FALSE, error |-> <<"Product not found">>]

\* a product that is not stored is answered as an empty product
GetProductDefault(product_id) ==
    LET product == IF product_id \in DOMAIN inventory THEN inventory[product_id]
                   ELSE [stock_quantity |-> 0, reserved_quantity |-> 0,
                         low_stock_threshold |-> 0, is_active |-> TRUE]
        available == product.stock_quantity - product.reserved_quantity
    IN [success |-> TRUE,
        product_id |-> product_id,
        stock_quantity |-> product.stock_quantity,
        reserved_quantity |-> product.reserved_quantity,
        available_quantity |-> available,
        is_in_stock |-> available > 0,
        is_low_stock |-> available <= product.low_stock_threshold,
        low_stock_threshold |-> product.low_stock_threshold,
        is_active |-> product.is_active]

\* get_product: select by product_id, then the derived fields
GetProduct(product_id) ==
    IF product_id \in DOMAIN inventory
    THEN LET product == inventory[product_id]
             available == Available(product)
         IN [success |-> TRUE,
             product_id |-> product_id,
             stock_quantity |-> product.stock_quantity,
             reserved_quantity |-> product.reserved_quantity,
             available_quantity |-> available,
             is_in_stock |-> IsInStock(available),
             is_low_stock |-> IsLowStock(available, product),
             low_stock_threshold |-> product.low_stock_threshold,
             is_active |-> product.is_active]
    ELSE [success |-> FALSE, error |-> <<"Product not found">>]

\* the store rejects an insert whose product_id is already a row's key
DuplicateKey(product_id) == product_id \in DOMAIN inventory

\* what the insert of a product can raise (<<>>: nothing).  A price below
\* zero is rejected where the table carries that constraint, which the ledger
\* cannot tell
InsertRaises(product_id, price) ==
    IF DuplicateKey(product_id) THEN {<<"duplicate key">>}
    ELSE IF price < 0 THEN {<<"price check">>, <<>>}
    ELSE {<<>>}

\* a call by p begins: the callers whose calls ended before it have consumed
\* what they were returned; the history variables
Begin(p, args, r) ==
    /\ ncalls < MaxCalls
    /\ ncalls' = ncalls + 1
    /\ base' = IF AllIdle THEN Tables ELSE base
    /\ wcalls' = IF AllIdle THEN 1 ELSE wcalls + 1
    /\ frame' = [o \in Procs |->
                    IF o = p THEN args
                    ELSE IF AllIdle THEN [op |-> "none"] ELSE frame[o]]
    /\ ret' = [o \in Procs |->
                  IF o = p THEN r
                  ELSE IF AllIdle THEN [none |-> TRUE] ELSE ret[o]]

\* -------------------------------------------------------------- add_product
\* the new product starts with all its stock reserved
NewProductAllReserved(stock_quantity, low_stock_threshold) ==
    [stock_quantity |-> stock_quantity,
     reserved_quantity |-> stock_quantity,
     low_stock_threshold |-> low_stock_threshold,
     is_active |-> TRUE]

\* the row add_product inserts
NewProduct(stock_quantity, low_stock_threshold) ==
    [stock_quantity |-> stock_quantity,
     reserved_quantity |-> 0,
     low_stock_threshold |-> low_stock_threshold,
     is_active |-> TRUE]

\* the exception handler does not tell the caller of the rejected insert
AddProductReturnSwallowed(raised, product_id, data) ==
    [success |-> TRUE, product_id |-> product_id, product |-> data]

\* return {"success": True, "product": result.data[0]}, or the except clause
\* with str(e) of what the insert raised (<<>>: it did not raise)
AddProductReturn(raised, product_id, data) ==
    IF raised # <<>>
    THEN [success |-> FALSE, error |-> raised]
    ELSE [success |-> TRUE, product_id |-> product_id, product |-> data]

\* add_product validates nothing: it builds the row and inserts it
AddProduct(p) ==
    \E product_id \in ProductIds, price \in Prices, stock_quantity \in Stocks,
       low_stock_threshold \in Thresholds :
      \E raised \in InsertRaises(product_id, price) :
        LET args == [op |-> "add_product", product_id |-> product_id,
                     price |-> price,
                     stock_quantity |-> stock_quantity,
                     low_stock_threshold |-> low_stock_threshold]
            data == NewProduct(stock_quantity, low_stock_threshold)
        IN /\ pc[p] = "idle"
           /\ inventory' = IF raised # <<>> THEN inventory
                            ELSE inventory @@ (product_id :> data)
           /\ Begin(p, args, AddProductReturn(raised, product_id, data))
           /\ UNCHANGED <<reservations, stock_movements, now, pc, hist>>

\* ------------------------------------------------------------- update_stock
\* the change is taken off the stock instead of added to it
NewStockSubtracted(current_stock, quantity_change) == current_stock - quantity_change

\* new_stock = current_stock + quantity_change
NewStock(current_stock, quantity_change) == current_stock + quantity_change

\* the comparison off by one: a stock of one below zero passes
StockUnderflowOffByOne(new_stock) == new_stock < 0 - 1

\* the new stock is also held against what is reserved
StockUnderflowReserved(new_stock) ==
    \/ new_stock < 0
    \/ \E id \in DOMAIN inventory : new_stock < inventory[id].reserved_quantity

\* if new_stock < 0: "Insufficient stock"
StockUnderflow(new_stock) == new_stock < 0

\* get_product, the not-found and underflow returns
UpdateStockRead(p) ==
    \E product_id \in ProductIds, quantity_change \in Deltas, reason \in Reasons :
        LET product_result == GetProduct(product_id)
            args == [op |-> "update_stock", product_id |-> product_id,
                     quantity_change |-> quantity_change, reason |-> reason]
        IN /\ pc[p] = "idle"
           /\ IF ~product_result.success
              THEN /\ Begin(p, args, [success |-> FALSE,
                                      error |-> <<"Product not found">>])
                   /\ pc' = pc
              ELSE LET current_stock == product_result.stock_quantity
                       new_stock == NewStock(current_stock, quantity_change)
                   IN IF StockUnderflow(new_stock)
                      THEN /\ Begin(p, args, [success |-> FALSE,
                                              error |-> <<"Insufficient stock">>])
                           /\ pc' = pc
                      ELSE /\ Begin(p, args @@ [current_stock |-> current_stock,
                                                new_stock |-> new_stock],
                                    [pending |-> TRUE])
                           /\ pc' = [pc EXCEPT ![p] = "us_write"]
           /\ UNCHANGED <<inventory, reservations, stock_movements, now, hist>>

\* the update selects no row by product_id: it writes every product
UpdateStockWriteEvery(p) ==
    /\ pc[p] = "us_write"
    /\ inventory' = [id \in DOMAIN inventory |->
                        [inventory[id] EXCEPT !.stock_quantity = frame[p].new_stock]]
    /\ pc' = [pc EXCEPT ![p] = "us_log"]
    /\ UNCHANGED <<reservations, stock_movements, now, frame, ret,
                   base, wcalls, ncalls, hist>>

\* update({"stock_quantity": new_stock}).eq("product_id", product_id)
UpdateStockWrite(p) ==
    /\ pc[p] = "us_write"
    /\ LET f == frame[p]
       IN inventory' = [id \in DOMAIN inventory |->
                           IF id = f.product_id
                           THEN [inventory[id] EXCEPT !.stock_quantity = f.new_stock]
                           ELSE inventory[id]]
    /\ pc' = [pc EXCEPT ![p] = "us_log"]
    /\ UNCHANGED <<reservations, stock_movements, now, frame, ret,
                   base, wcalls, ncalls, hist>>

\* log_stock_movement, then the success return
UpdateStockLog(p) ==
    /\ pc[p] = "us_log"
    /\ LET f == frame[p]
       IN /\ stock_movements' = Append(stock_movements,
                 [product_id |-> f.product_id,
                  quantity_change |-> f.quantity_change,
                  reason |-> f.reason,
                  previous_stock |-> f.current_stock,
                  new_stock |-> f.new_stock])
          /\ ret' = [ret EXCEPT ![p] =
                        [success |-> TRUE, product_id |-> f.product_id,
                         previous_stock |-> f.current_stock,
                         new_stock |-> f.new_stock,
                         change |-> f.quantity_change]]
          /\ frame' = [frame EXCEPT ![p] =
                          [op |-> "update_stock", product_id |-> f.product_id,
                           quantity_change |-> f.quantity_change,
                           reason |-> f.reason]]
    /\ pc' = [pc EXCEPT ![p] = "idle"]
    /\ UNCHANGED <<inventory, reservations, now, base, wcalls, ncalls, hist>>

\* ------------------------------------------------------------ reserve_stock
\* the comparison off by one: a request of one more than available passes
InsufficientStockOffByOne(available, quantity) == available + 1 < quantity

\* if available < quantity: "Insufficient stock. Available: .., Requested: .."
InsufficientStock(available, quantity) == available < quantity

\* the new quantity overwrites the reserved quantity instead of adding to it
NewReservedOverwrite(product_result, quantity) == quantity

\* new_reserved = product_result["reserved_quantity"] + quantity
NewReserved(product_result, quantity) == product_result.reserved_quantity + quantity

\* "status": "active" of the inserted reservation
ActiveStatus == "active"

\* "expires_at": datetime.now() + timedelta(minutes=15)
ExpiresAt(t) == t + HoldMinutes

\* get_product, the not-found and insufficient-stock returns
ReserveRead(p) ==
    \E product_id \in ProductIds, quantity \in Quantities :
        LET product_result == GetProduct(product_id)
            args == [op |-> "reserve_stock", product_id |-> product_id,
                     quantity |-> quantity, customer_id |-> p]
        IN /\ pc[p] = "idle"
           /\ IF ~product_result.success
              THEN /\ Begin(p, args, [success |-> FALSE,
                                      error |-> <<"Product not found">>])
                   /\ pc' = pc
              ELSE LET available == product_result.available_quantity
                   IN IF InsufficientStock(available, quantity)
                      THEN /\ Begin(p, args,
                                    [success |-> FALSE,
                                     error |-> <<"Insufficient stock",
                                                 available, quantity>>])
                           /\ pc' = pc
                      ELSE /\ Begin(p, args @@ [new_reserved |->
                                        NewReserved(product_result, quantity),
                                     call |-> ncalls + 1,
                                     before |-> product_result.reserved_quantity],
                                    [pending |-> TRUE])
                           /\ pc' = [pc EXCEPT ![p] = "rs_write"]
           /\ UNCHANGED <<inventory, reservations, stock_movements, now, hist>>

\* update({"reserved_quantity": new_reserved}).eq("product_id", product_id)
ReserveWrite(p) ==
    /\ pc[p] = "rs_write"
    /\ LET f == frame[p]
       IN inventory' = [id \in DOMAIN inventory |->
                           IF id = f.product_id
                           THEN [inventory[id] EXCEPT !.reserved_quantity = f.new_reserved]
                           ELSE inventory[id]]
    /\ pc' = [pc EXCEPT ![p] = "rs_insert"]
    /\ UNCHANGED <<reservations, stock_movements, now, frame, ret,
                   base, wcalls, ncalls, hist>>

\* insert of the reservation row, then the success return
ReserveInsert(p) ==
    /\ pc[p] = "rs_insert"
    /\ LET f == frame[p]
           reservation_data == [product_id |-> f.product_id,
                                customer_id |-> f.customer_id,
                                quantity |-> f.quantity,
                                status |-> ActiveStatus,
                                expires_at |-> ExpiresAt(now)]
       IN /\ reservations' = Append(reservations, reservation_data)
          /\ hist' = Append(hist, [call |-> f.call, before |-> f.before,
                                   returned |-> 0])
          /\ ret' = [ret EXCEPT ![p] =
                        [success |-> TRUE,
                         reservation_id |-> Len(reservations) + 1,
                         product_id |-> f.product_id,
                         quantity |-> f.quantity,
                         expires_at |-> reservation_data.expires_at]]
          /\ frame' = [frame EXCEPT ![p] =
                          [op |-> "reserve_stock", product_id |-> f.product_id,
                           quantity |-> f.quantity, customer_id |-> f.customer_id]]
    /\ pc' = [pc EXCEPT ![p] = "idle"]
    /\ UNCHANGED <<inventory, stock_movements, now, base, wcalls, ncalls>>

\* ------------------------------------------------------ release_reservation
\* the status is not looked at: a released reservation is released again
NotActiveUnchecked(res_data) == FALSE

\* if res_data["status"] != "active": "Reservation already released"
NotActive(res_data) == res_data.status # "active"

\* the release leaves the reserved quantity as it is
ReleasedReservedKept(product, res_data) == product.reserved_quantity

\* new_reserved = max(0, product["reserved_quantity"] - res_data["quantity"])
ReleasedReserved(product, res_data) ==
    Max(0, product.reserved_quantity - res_data.quantity)

\* the status update writes a value outside the two states
ReleasedStatusOther == "cancelled"

\* update({"status": "released"})
ReleasedStatus == "released"

\* select of the reservation, the not-found and already-released returns
ReleaseRead(p) ==
    \E reservation_id \in 1..(Len(reservations) + 1) :
        LET args == [op |-> "release_reservation",
                     reservation_id |-> reservation_id]
        IN /\ pc[p] = "idle"
           /\ IF reservation_id \notin DOMAIN reservations
              THEN /\ Begin(p, args, [success |-> FALSE,
                                      error |-> <<"Reservation not found">>])
                   /\ pc' = pc
              ELSE LET res_data == reservations[reservation_id]
                   IN IF NotActive(res_data)
                      THEN /\ Begin(p, args,
                                    [success |-> FALSE,
                                     error |-> <<"Reservation already released">>])
                           /\ pc' = pc
                      ELSE /\ Begin(p, args @@ [res_data |-> res_data],
                                    [pending |-> TRUE])
                           /\ pc' = [pc EXCEPT ![p] = "rl_product"]
           /\ UNCHANGED <<inventory, reservations, stock_movements, now, hist>>

\* select of the product, the not-found return, new_reserved
ReleaseReadProduct(p) ==
    /\ pc[p] = "rl_product"
    /\ LET f == frame[p]
       IN IF f.res_data.product_id \notin DOMAIN inventory
          THEN /\ ret' = [ret EXCEPT ![p] =
                             [success |-> FALSE, error |-> <<"Product not found">>]]
               /\ frame' = [frame EXCEPT ![p] =
                               [op |-> "release_reservation",
                                reservation_id |-> f.reservation_id]]
               /\ pc' = [pc EXCEPT ![p] = "idle"]
          ELSE /\ ret' = ret
               /\ frame' = [frame EXCEPT ![p] =
                               f @@ [new_reserved |->
                                   ReleasedReserved(inventory[f.res_data.product_id],
                                                    f.res_data)]]
               /\ pc' = [pc EXCEPT ![p] = "rl_write"]
    /\ UNCHANGED <<inventory, reservations, stock_movements, now,
                   base, wcalls, ncalls, hist>>

\* update({"reserved_quantity": new_reserved}).eq("product_id", ...)
ReleaseWriteProduct(p) ==
    /\ pc[p] = "rl_write"
    /\ LET f == frame[p]
       IN /\ inventory' = [id \in DOMAIN inventory |->
                              IF id = f.res_data.product_id
                              THEN [inventory[id] EXCEPT
                                       !.reserved_quantity = f.new_reserved]
                              ELSE inventory[id]]
          /\ hist' = [hist EXCEPT ![f.reservation_id].returned = @ + 1]
    /\ pc' = [pc EXCEPT ![p] = "rl_status"]
    /\ UNCHANGED <<reservations, stock_movements, now, frame, ret,
                   base, wcalls, ncalls>>

\* update({"status": "released"}).eq("id", reservation_id), the success return
ReleaseWriteStatus(p) ==
    /\ pc[p] = "rl_status"
    /\ LET f == frame[p]
       IN /\ reservations' = [reservations EXCEPT
                                 ![f.reservation_id].status = ReleasedStatus]
          /\ ret' = [ret EXCEPT ![p] =
                        [success |-> TRUE,
                         message |-> "Reservation released successfully"]]
          /\ frame' = [frame EXCEPT ![p] =
                          [op |-> "release_reservation",
                           reservation_id |-> f.reservation_id]]
    /\ pc' = [pc EXCEPT ![p] = "idle"]
    /\ UNCHANGED <<inventory, stock_movements, now, base, wcalls, ncalls, hist>>

\* -------------------------------------------------------------------- time
\* as the clock moves on, the reservations whose deadline it reaches lapse
TickReclaims ==
    /\ now < MaxTicks * HoldMinutes
    /\ now' = now + HoldMinutes
    /\ reservations' = [i \in DOMAIN reservations |->
                           IF /\ reservations[i].status = "active"
                              /\ reservations[i].expires_at <= now'
                           THEN [reservations[i] EXCEPT !.status = "expired"]
                           ELSE reservations[i]]
    /\ UNCHANGED <<inventory, stock_movements, pc, frame, ret,
                   base, wcalls, ncalls, hist>>

\* the wall clock moves on by one hold period
Tick ==
    /\ now < MaxTicks * HoldMinutes
    /\ now' = now + HoldMinutes
    /\ UNCHANGED <<inventory, reservations, stock_movements, pc, frame, ret,
                   base, wcalls, ncalls, hist>>

\* ----------------------------------------------------------- specifications
\* the store as setup_sample_inventory leaves it: one product added, the other
\* tables empty, no call of the callers begun
Init ==
    /\ \E stock_quantity \in Stocks, low_stock_threshold \in Thresholds :
          inventory = (Seeded :> NewProduct(stock_quantity, low_stock_threshold))
    /\ reservations = <<>>
    /\ stock_movements = <<>>
    /\ now = 0
    /\ pc = [p \in Procs |-> "idle"]
    /\ frame = [p \in Procs |-> [op |-> "none"]]
    /\ ret = [p \in Procs |-> [none |-> TRUE]]
    /\ base = [inventory |-> inventory, reservations |-> <<>>,
               stock_movements |-> <<>>]
    /\ wcalls = 0
    /\ ncalls = 0
    /\ hist = <<>>

Step(p) ==
    \/ AddProduct(p)
    \/ UpdateStockRead(p)
    \/ UpdateStockWrite(p)
    \/ UpdateStockLog(p)
    \/ ReserveRead(p)
    \/ ReserveWrite(p)
    \/ ReserveInsert(p)
    \/ ReleaseRead(p)
    \/ ReleaseReadProduct(p)
    \/ ReleaseWriteProduct(p)
    \/ ReleaseWriteStatus(p)

\* get_product called for itself: one round trip, nothing written.  The field
\* prior of the frame is history: what p's call before this one returned, when
\* that call was get_product of the same product
GetProductCall(p) ==
    \E product_id \in ProductIds :
        /\ pc[p] = "idle"
        /\ Begin(p, [op |-> "get_product", product_id |-> product_id,
                     prior |-> IF /\ frame[p].op = "get_product"
                                  /\ frame[p].product_id = product_id
                               THEN ret[p] ELSE [none |-> TRUE]],
                 GetProduct(product_id))
        /\ UNCHANGED <<inventory, reservations, stock_movements, now, pc, hist>>

\* in_stock_only selects on what is available, not on the stock
SearchSelectedAvailable(in_stock_only) ==
    {id \in DOMAIN inventory :
        /\ in_stock_only => inventory[id].stock_quantity
                                - inventory[id].reserved_quantity > 0
        /\ inventory[id].is_active}

\* the rows the query of search_products selects: gt("stock_quantity", 0) when
\* in_stock_only, eq("is_active", True) always; search_term and category are
\* None
SearchSelected(in_stock_only) ==
    {id \in DOMAIN inventory :
        /\ in_stock_only => inventory[id].stock_quantity > 0
        /\ inventory[id].is_active}

\* search_products: the selected rows with their derived fields
SearchProducts(in_stock_only) ==
    [success |-> TRUE,
     products |-> {[product_id |-> id,
                    available_quantity |-> Available(inventory[id]),
                    is_in_stock |-> IsInStock(Available(inventory[id]))] :
                   id \in SearchSelected(in_stock_only)}]

SearchProductsCall(p) ==
    \E in_stock_only \in BOOLEAN :
        /\ pc[p] = "idle"
        /\ Begin(p, [op |-> "search_products", in_stock_only |-> in_stock_only],
                 SearchProducts(in_stock_only))
        /\ UNCHANGED <<inventory, reservations, stock_movements, now, pc, hist>>

\* get_low_stock_products: the active rows, those kept whose available is at
\* most their threshold
GetLowStockProducts ==
    [success |-> TRUE,
     products |-> {[product_id |-> id,
                    available_quantity |-> Available(inventory[id]),
                    threshold |-> inventory[id].low_stock_threshold] :
                   id \in {i \in DOMAIN inventory :
                              /\ inventory[i].is_active
                              /\ IsLowStock(Available(inventory[i]), inventory[i])}}]

GetLowStockProductsCall(p) ==
    /\ pc[p] = "idle"
    /\ Begin(p, [op |-> "get_low_stock_products"], GetLowStockProducts)
    /\ UNCHANGED <<inventory, reservations, stock_movements, now, pc, hist>>

\* a product is deactivated in the store: no ledger operation does it, the
\* queries select on is_active because the store can hold such rows
Deactivate ==
    \E product_id \in DOMAIN inventory :
        /\ AllIdle
        /\ inventory[product_id].is_active
        /\ inventory' = [inventory EXCEPT ![product_id].is_active = FALSE]
        /\ UNCHANGED <<reservations, stock_movements, now, pc, frame, ret,
                       base, wcalls, ncalls, hist>>

Query(p) ==
    \/ GetProductCall(p)
    \/ SearchProductsCall(p)
    \/ GetLowStockProductsCall(p)

\* callers interleave between store round trips
Next == Tick \/ \E p \in Procs : Step(p)

Spec == Init /\ [][Next]_vars

\* one call at a time: a single caller, each call returned before the next
NextSeq == Tick \/ Step(Caller)

SpecSeq == Init /\ [][NextSeq]_vars

\* one call at a time, the queries of the stock among them
NextQuery == Tick \/ Step(Caller) \/ Query(Caller)

SpecQuery == Init /\ [][NextQuery]_vars

\* the catalogue: the rows of inventory as one caller's add_product,
\* update_stock and reserve_stock calls and the store's deactivations leave
\* them, and the two queries that list them
NextCatalog ==
    \/ AddProduct(Caller)
    \/ UpdateStockRead(Caller)
    \/ UpdateStockWrite(Caller)
    \/ UpdateStockLog(Caller)
    \/ ReserveRead(Caller)
    \/ ReserveWrite(Caller)
    \/ ReserveInsert(Caller)
    \/ Deactivate
    \/ SearchProductsCall(Caller)
    \/ GetLowStockProductsCall(Caller)

SpecCatalog == Init /\ [][NextCatalog]_vars

\* the purchase flow of test_complete_purchase_flow: the caller reserves, then
\* takes the reserved quantity off the stock of that product as a sale, then
\* releases the reservation it made.  A flow can begin whenever the caller is
\* idle; add_product and reserve_stock calls can come before it
FlowSale ==
    /\ pc[Caller] = "idle"
    /\ frame[Caller].op = "reserve_stock"
    /\ ret[Caller].success
    /\ UpdateStockRead(Caller)
    /\ frame'[Caller].product_id = frame[Caller].product_id
    /\ frame'[Caller].quantity_change = 0 - frame[Caller].quantity

FlowRelease ==
    /\ pc[Caller] = "idle"
    /\ frame[Caller].op = "update_stock"
    /\ ReleaseRead(Caller)
    /\ frame'[Caller].reservation_id = Len(reservations)

NextFlow ==
    \/ Tick
    \/ AddProduct(Caller)
    \/ ReserveRead(Caller)
    \/ ReserveWrite(Caller)
    \/ ReserveInsert(Caller)
    \/ FlowSale
    \/ UpdateStockWrite(Caller)
    \/ UpdateStockLog(Caller)
    \/ FlowRelease
    \/ ReleaseReadProduct(Caller)
    \/ ReleaseWriteProduct(Caller)
    \/ ReleaseWriteStatus(Caller)

SpecFlow == Init /\ [][NextFlow]_vars

\* ------------------------------------------------------------ store failures
\* A store round trip raises instead of answering.  Every ledger method
\* catches the exception and returns success False with str(e); what it wrote
\* before stays written.  The field failed_at of the frame is history: the
\* round trip that raised.

\* str(e) of the exception a failing round trip raises
StoreError == <<"store error">>

\* p's call ends in the except clause of its method
Caught(p, args) ==
    /\ ret' = [ret EXCEPT ![p] = [success |-> FALSE, error |-> StoreError]]
    /\ frame' = [frame EXCEPT ![p] = args @@ [failed_at |-> pc[p]]]
    /\ pc' = [pc EXCEPT ![p] = "idle"]

\* update_stock: the update of stock_quantity raises
UpdateStockWriteFails(p) ==
    /\ pc[p] = "us_write"
    /\ Caught(p, [op |-> "update_stock", product_id |-> frame[p].product_id,
                  quantity_change |-> frame[p].quantity_change,
                  reason |-> frame[p].reason])
    /\ UNCHANGED <<inventory, reservations, stock_movements, now,
                   base, wcalls, ncalls, hist>>

\* update_stock: the insert of log_stock_movement raises; log_stock_movement
\* returns success False, which update_stock does not look at
UpdateStockLogFails(p) ==
    /\ pc[p] = "us_log"
    /\ LET f == frame[p]
       IN /\ ret' = [ret EXCEPT ![p] =
                        [success |-> TRUE, product_id |-> f.product_id,
                         previous_stock |-> f.current_stock,
                         new_stock |-> f.new_stock,
                         change |-> f.quantity_change]]
          /\ frame' = [frame EXCEPT ![p] =
                          [op |-> "update_stock", product_id |-> f.product_id,
                           quantity_change |-> f.quantity_change,
                           reason |-> f.reason, failed_at |-> "us_log"]]
    /\ pc' = [pc EXCEPT ![p] = "idle"]
    /\ UNCHANGED <<inventory, reservations, stock_movements, now,
                   base, wcalls, ncalls, hist>>

\* reserve_stock: the update of reserved_quantity raises
ReserveWriteFails(p) ==
    /\ pc[p] = "rs_write"
    /\ Caught(p, [op |-> "reserve_stock", product_id |-> frame[p].product_id,
                  quantity |-> frame[p].quantity,
                  customer_id |-> frame[p].customer_id])
    /\ UNCHANGED <<inventory, reservations, stock_movements, now,
                   base, wcalls, ncalls, hist>>

\* reserve_stock: the insert of the reservation raises
ReserveInsertFails(p) ==
    /\ pc[p] = "rs_insert"
    /\ Caught(p, [op |-> "reserve_stock", product_id |-> frame[p].product_id,
                  quantity |-> frame[p].quantity,
                  customer_id |-> frame[p].customer_id])
    /\ UNCHANGED <<inventory, reservations, stock_movements, now,
                   base, wcalls, ncalls, hist>>

\* release_reservation: the select of the product raises
ReleaseReadProductFails(p) ==
    /\ pc[p] = "rl_product"
    /\ Caught(p, [op |-> "release_reservation",
                  reservation_id |-> frame[p].reservation_id])
    /\ UNCHANGED <<inventory, reservations, stock_movements, now,
                   base, wcalls, ncalls, hist>>

\* release_reservation: the update of reserved_quantity raises
ReleaseWriteProductFails(p) ==
    /\ pc[p] = "rl_write"
    /\ Caught(p, [op |-> "release_reservation",
                  reservation_id |-> frame[p].reservation_id])
    /\ UNCHANGED <<inventory, reservations, stock_movements, now,
                   base, wcalls, ncalls, hist>>

\* release_reservation: the update of the status raises
ReleaseWriteStatusFails(p) ==
    /\ pc[p] = "rl_status"
    /\ Caught(p, [op |-> "release_reservation",
                  reservation_id |-> frame[p].reservation_id])
    /\ UNCHANGED <<inventory, reservations, stock_movements, now,
                   base, wcalls, ncalls, hist>>

Fault(p) ==
    \/ UpdateStockWriteFails(p)
    \/ UpdateStockLogFails(p)
    \/ ReserveWriteFails(p)
    \/ ReserveInsertFails(p)
    \/ ReleaseReadProductFails(p)
    \/ ReleaseWriteProductFails(p)
    \/ ReleaseWriteStatusFails(p)

\* a single caller on a store whose round trips may fail
NextFault == Tick \/ Step(Caller) \/ Fault(Caller)

SpecFault == Init /\ [][NextFault]_vars

\* ================================================================ claims
CustA == "CUST_A"
CustB == "CUST_B"

\* p's call was the only one of its group and has returned
Returned(p, op) == AllIdle /\ wcalls = 1 /\ frame[p].op = op

\* both callers' calls of op overlapped and both have returned
Overlapped(op) ==
    AllIdle /\ wcalls = 2 /\ \A p \in Procs : frame[p].op = op

RECURSIVE SumQuantity(_, _, _)
\* the quantities of the rows 1..n of rows that reference product_id
SumQuantity(rows, product_id, n) ==
    IF n = 0 THEN 0
    ELSE SumQuantity(rows, product_id, n - 1)
         + (IF rows[n].product_id = product_id THEN rows[n].quantity ELSE 0)

\* C1: in every state reached by add_product, update_stock, reserve_stock and
\* release_reservation calls, every product has
\* 0 <= reserved_quantity <= stock_quantity.
C1_ReservedWithinStock ==
    \A id \in DOMAIN inventory :
        /\ 0 <= inventory[id].reserved_quantity
        /\ inventory[id].reserved_quantity <= inventory[id].stock_quantity

\* the two overlapping reserve_stock calls are on product id, each of a
\* quantity of at least 1
TwoReserves(id) ==
    /\ Overlapped("reserve_stock")
    /\ id \in DOMAIN base.inventory
    /\ \A p \in Procs : frame[p].product_id = id /\ frame[p].quantity >= 1

\* C2: two reserve_stock calls of q1 and q2 that overlap on one product whose
\* available quantity is at least q1 + q2 both succeed and leave
\* reserved_quantity exactly q1 + q2 higher than before.
C2_NoLostReservation ==
    \A id \in ProductIds :
        (/\ TwoReserves(id)
         /\ Available(base.inventory[id])
                >= frame[CustA].quantity + frame[CustB].quantity)
        => /\ ret[CustA].success
           /\ ret[CustB].success
           /\ inventory[id].reserved_quantity =
                 base.inventory[id].reserved_quantity
                 + frame[CustA].quantity + frame[CustB].quantity

\* C3: two overlapping reserve_stock calls on one product, each of a quantity
\* the product has available but together of more, do not both succeed: the
\* outcome is that of one of the two serial orders.
C3_NoOverbooking ==
    \A id \in ProductIds :
        (/\ TwoReserves(id)
         /\ \A p \in Procs : frame[p].quantity <= Available(base.inventory[id])
         /\ Available(base.inventory[id])
                < frame[CustA].quantity + frame[CustB].quantity)
        => /\ ~(ret[CustA].success /\ ret[CustB].success)
           /\ \E p \in Procs :
                 /\ ret[p].success
                 /\ inventory[id].reserved_quantity =
                       base.inventory[id].reserved_quantity + frame[p].quantity
           /\ inventory[id].reserved_quantity <= inventory[id].stock_quantity

\* C4: a successful reserve_stock of q on a product with q available raises
\* the product's reserved_quantity by exactly q and inserts exactly one row,
\* active and of quantity q; while no reservation has been released, each
\* product's reserved_quantity is the sum of its reservations' quantities and
\* its available_quantity is its stock less that sum.
C4_ReserveAddsQuantity ==
    /\ \A p \in Procs :
          (/\ Returned(p, "reserve_stock")
           /\ ret[p].success)
          => LET id == frame[p].product_id
                 q == frame[p].quantity
                 n == Len(reservations)
             IN /\ Available(base.inventory[id]) >= q
                /\ inventory[id].reserved_quantity =
                      base.inventory[id].reserved_quantity + q
                /\ n = Len(base.reservations) + 1
                /\ SubSeq(reservations, 1, n - 1) = base.reservations
                /\ reservations[n].status = "active"
                /\ reservations[n].quantity = q
                /\ reservations[n].product_id = id
                /\ ret[p].reservation_id = n
    /\ (AllIdle /\ \A r \in DOMAIN reservations : reservations[r].status = "active")
       => \A id \in DOMAIN inventory :
             LET sum == SumQuantity(reservations, id, Len(reservations))
             IN /\ inventory[id].reserved_quantity = sum
                /\ GetProduct(id).available_quantity =
                      inventory[id].stock_quantity - sum

\* two successful reservations of at least 1 on one product have accumulated
C4_Witness ==
    /\ Len(reservations) = 2
    /\ reservations[1].product_id = reservations[2].product_id
    /\ reservations[1].quantity >= 1
    /\ \E p \in Procs :
          /\ Returned(p, "reserve_stock")
          /\ ret[p].success
          /\ frame[p].quantity >= 1

\* C5: reserve_stock of more than the product has available fails with the
\* insufficient-stock error, which reports the available and the requested
\* quantity, and changes neither reserved_quantity nor the reservations.
C5_InsufficientStockFails ==
    \A p \in Procs :
        (/\ Returned(p, "reserve_stock")
         /\ frame[p].product_id \in DOMAIN base.inventory
         /\ frame[p].quantity > Available(base.inventory[frame[p].product_id]))
        => /\ ~ret[p].success
           /\ ret[p].error =
                 <<"Insufficient stock",
                   Available(base.inventory[frame[p].product_id]),
                   frame[p].quantity>>
           /\ inventory = base.inventory
           /\ reservations = base.reservations

\* a reservation of a quantity in stock failed because part of the stock is
\* reserved
C5_Witness ==
    \E p \in Procs :
        /\ Returned(p, "reserve_stock")
        /\ ~ret[p].success
        /\ frame[p].product_id \in DOMAIN base.inventory
        /\ base.inventory[frame[p].product_id].reserved_quantity >= 1
        /\ frame[p].quantity <= base.inventory[frame[p].product_id].stock_quantity
        /\ frame[p].quantity > Available(base.inventory[frame[p].product_id])

\* C6: reserve_stock of a quantity <= 0 on an existing product fails, leaves
\* reserved_quantity as it was and creates no reservation row.
C6_NonPositiveQuantityFails ==
    \A p \in Procs :
        (/\ Returned(p, "reserve_stock")
         /\ frame[p].product_id \in DOMAIN base.inventory
         /\ frame[p].quantity <= 0)
        => /\ ~ret[p].success
           /\ inventory = base.inventory
           /\ reservations = base.reservations

\* C7: a successful release_reservation of an active reservation of quantity
\* q sets the product's reserved_quantity to max(0, reserved_quantity - q) and
\* the reservation's status to released; so a release that directly follows
\* the reserve_stock call of its reservation leaves reserved_quantity and
\* available_quantity as they were before that reserve_stock call.
C7_ReleaseRestores ==
    \A p \in Procs :
        (/\ Returned(p, "release_reservation")
         /\ ret[p].success)
        => LET r == frame[p].reservation_id
               row == base.reservations[r]
               id == row.product_id
           IN /\ row.status = "active"
              /\ inventory[id].reserved_quantity =
                    Max(0, base.inventory[id].reserved_quantity - row.quantity)
              /\ reservations[r].status = "released"
              /\ hist[r].call = ncalls - 1
                 => /\ inventory[id].reserved_quantity = hist[r].before
                    /\ GetProduct(id).available_quantity =
                          inventory[id].stock_quantity - hist[r].before

\* C8: release_reservation of a reservation that is not active fails with
\* "already released" and changes neither the product's reserved_quantity nor
\* the reservation's status.
C8_ReleaseNotRepeated ==
    \A p \in Procs :
        (/\ Returned(p, "release_reservation")
         /\ frame[p].reservation_id \in DOMAIN base.reservations
         /\ base.reservations[frame[p].reservation_id].status # "active")
        => /\ ~ret[p].success
           /\ ret[p].error = <<"Reservation already released">>
           /\ inventory = base.inventory
           /\ reservations = base.reservations

\* a second release of a released reservation of at least 1 has returned
C8_Witness ==
    \E p \in Procs :
        /\ Returned(p, "release_reservation")
        /\ frame[p].reservation_id \in DOMAIN base.reservations
        /\ base.reservations[frame[p].reservation_id].status = "released"
        /\ base.reservations[frame[p].reservation_id].quantity >= 1
        /\ ~ret[p].success

\* C9: in every execution, overlapping release_reservation calls for one
\* reservation included, a reservation's quantity is subtracted from its
\* product's reserved_quantity once, when the reservation goes from active to
\* released, and never a second time.
C9_ReturnedOnce ==
    \A r \in DOMAIN reservations :
        reservations[r].quantity >= 1
        => /\ hist[r].returned <= 1
           /\ reservations[r].status = "released" => hist[r].returned = 1

\* C10: a reservation's status is active or released; a row is created
\* active; the only change of a status is from active to released, made by
\* release_reservation's status update; rows are never removed, and neither a
\* later call nor the clock moving on changes a released row's status.
C10_StatusLifecycle ==
    [][/\ Len(reservations') >= Len(reservations)
       /\ \A r \in DOMAIN reservations' :
             reservations'[r].status \in {"active", "released"}
       /\ \A r \in DOMAIN reservations' \ DOMAIN reservations :
             reservations'[r].status = "active"
       /\ \A r \in DOMAIN reservations :
             /\ reservations[r].status = "released"
                => reservations'[r].status = "released"
             /\ reservations'[r].status # reservations[r].status
                => /\ reservations[r].status = "active"
                   /\ reservations'[r].status = "released"
                   /\ \E p \in Procs :
                         /\ pc[p] = "rl_status"
                         /\ pc'[p] = "idle"
                         /\ frame[p].reservation_id = r]_vars

\* a released reservation is past its expiry time and a later call has returned
C10_Witness ==
    \E r \in DOMAIN reservations :
        /\ reservations[r].status = "released"
        /\ now >= reservations[r].expires_at
        /\ AllIdle
        /\ \E p \in Procs : frame[p].op \notin {"none", "release_reservation"}

\* C11: update_stock of a change d with stock_quantity + d < 0 fails with the
\* insufficient-stock error, leaves stock_quantity as it was and appends no
\* stock movement record.
C11_UnderflowFails ==
    \A p \in Procs :
        (/\ Returned(p, "update_stock")
         /\ frame[p].product_id \in DOMAIN base.inventory
         /\ base.inventory[frame[p].product_id].stock_quantity
                + frame[p].quantity_change < 0)
        => /\ ~ret[p].success
           /\ ret[p].error = <<"Insufficient stock">>
           /\ inventory = base.inventory
           /\ stock_movements = base.stock_movements

\* an update_stock that would take a stock below zero has returned
C11_Witness ==
    \E p \in Procs :
        /\ Returned(p, "update_stock")
        /\ frame[p].product_id \in DOMAIN base.inventory
        /\ base.inventory[frame[p].product_id].stock_quantity
               + frame[p].quantity_change < 0
        /\ ~ret[p].success

\* C12: a successful update_stock of d on a product with stock s, s + d >= 0,
\* sets stock_quantity to s + d, returns previous_stock s, new_stock s + d and
\* change d, and appends exactly one stock movement record, which holds
\* d, the reason, s and s + d.
C12_UpdateStockWrites ==
    \A p \in Procs :
        (/\ Returned(p, "update_stock")
         /\ frame[p].product_id \in DOMAIN base.inventory
         /\ base.inventory[frame[p].product_id].stock_quantity
                + frame[p].quantity_change >= 0)
        => LET id == frame[p].product_id
               d == frame[p].quantity_change
               s0 == base.inventory[id].stock_quantity
               n == Len(stock_movements)
           IN /\ ret[p].success
              /\ inventory[id].stock_quantity = s0 + d
              /\ ret[p].previous_stock = s0
              /\ ret[p].new_stock = s0 + d
              /\ ret[p].change = d
              /\ n = Len(base.stock_movements) + 1
              /\ SubSeq(stock_movements, 1, n - 1) = base.stock_movements
              /\ stock_movements[n] =
                    [product_id |-> id, quantity_change |-> d,
                     reason |-> frame[p].reason,
                     previous_stock |-> s0, new_stock |-> s0 + d]

\* an update_stock that lowers a stock has succeeded after an earlier one
C12_Witness ==
    \E p \in Procs :
        /\ Returned(p, "update_stock")
        /\ ret[p].success
        /\ frame[p].quantity_change < 0
        /\ Len(stock_movements) = 2

\* C13: two update_stock calls of d1 and d2 that overlap on one product and
\* both report success leave stock_quantity at its value before them plus
\* d1 + d2.
C13_NoLostStockUpdate ==
    \A id \in ProductIds :
        (/\ Overlapped("update_stock")
         /\ id \in DOMAIN base.inventory
         /\ \A p \in Procs : frame[p].product_id = id /\ ret[p].success)
        => inventory[id].stock_quantity =
              base.inventory[id].stock_quantity
              + frame[CustA].quantity_change + frame[CustB].quantity_change

\* p's call has returned after the round trip at stage raised
FailedAt(p, op, stage) ==
    /\ Returned(p, op)
    /\ "failed_at" \in DOMAIN frame[p]
    /\ frame[p].failed_at = stage

\* C14: when reserve_stock, asked for a quantity of at least 1, has written
\* the product's reserved_quantity and the insert of the reservation row then fails, the call returns failure and
\* the product's reserved_quantity is what it was before the call.
C14_ReserveRolledBack ==
    \A p \in Procs :
        (/\ FailedAt(p, "reserve_stock", "rs_insert")
         /\ frame[p].quantity >= 1)
        => /\ ~ret[p].success
           /\ inventory[frame[p].product_id].reserved_quantity =
                 base.inventory[frame[p].product_id].reserved_quantity
           /\ reservations = base.reservations

\* C15: when update_stock or release_reservation returns success False (the
\* failed reserve_stock is C14's case; every reservation holds at least 1), no product counter and no reservation status differs from
\* before the call; so release_reservation does not leave the decrement in
\* place with the reservation still active when its status update fails.
C15_FailureMeansNoMutation ==
    \A p \in Procs :
        (/\ AllIdle
         /\ wcalls = 1
         /\ frame[p].op \in {"update_stock", "release_reservation"}
         /\ \A i \in 1..Len(base.reservations) : base.reservations[i].quantity >= 1
         /\ ~ret[p].success)
        => /\ inventory = base.inventory
           /\ reservations = base.reservations

\* C16: when the stock movement insert fails after update_stock has written
\* the new stock_quantity, the stock change stands, the call reports success,
\* and the result carries a warning that tells the caller of the lost record.
C16_AuditFailureReported ==
    \A p \in Procs :
        FailedAt(p, "update_stock", "us_log")
        => /\ inventory[frame[p].product_id].stock_quantity =
                 base.inventory[frame[p].product_id].stock_quantity
                 + frame[p].quantity_change
           /\ ret[p].success
           /\ "warning" \in DOMAIN ret[p]

\* C17: add_product with a product id that is already stored fails and
\* leaves the inventory table, the stored product's counters included, as it
\* was; no second row of that id appears.
C17_DuplicateIdFails ==
    \A p \in Procs :
        (/\ Returned(p, "add_product")
         /\ frame[p].product_id \in DOMAIN base.inventory)
        => /\ ~ret[p].success
           /\ inventory = base.inventory

\* a stored product whose stock differs from the one given was added again
C17_Witness ==
    \E p \in Procs :
        /\ Returned(p, "add_product")
        /\ frame[p].product_id \in DOMAIN base.inventory
        /\ base.inventory[frame[p].product_id].stock_quantity # frame[p].stock_quantity
        /\ base.inventory[frame[p].product_id].reserved_quantity > 0
        /\ ~ret[p].success

\* C18: add_product with a price below zero fails and stores no product,
\* whether or not the store's table rejects such a price; add_product of a
\* new id with price zero succeeds and stores the product.
C18_NegativePriceFails ==
    \A p \in Procs :
        Returned(p, "add_product")
        => /\ frame[p].price < 0
              => /\ ~ret[p].success
                 /\ inventory = base.inventory
           /\ (frame[p].price = 0 /\ frame[p].product_id \notin DOMAIN base.inventory)
              => /\ ret[p].success
                 /\ frame[p].product_id \in DOMAIN inventory

\* C19: after a successful add_product the stored row has reserved_quantity
\* 0, is_active true and the stock_quantity and low_stock_threshold given,
\* and get_product on the store as the call left it reports that
\* stock_quantity and an available_quantity equal to it.
C19_AddedProductStored ==
    \A p \in Procs :
        (Returned(p, "add_product") /\ ret[p].success)
        => LET product_id == frame[p].product_id
               got == GetProduct(product_id)
           IN /\ product_id \in DOMAIN inventory
              /\ inventory[product_id].reserved_quantity = 0
              /\ inventory[product_id].is_active
              /\ inventory[product_id].stock_quantity = frame[p].stock_quantity
              /\ inventory[product_id].low_stock_threshold = frame[p].low_stock_threshold
              /\ got.success
              /\ got.stock_quantity = frame[p].stock_quantity
              /\ got.available_quantity = got.stock_quantity

\* a product with stock was added after other calls
C19_Witness ==
    \E p \in Procs :
        /\ Returned(p, "add_product")
        /\ ret[p].success
        /\ frame[p].stock_quantity > 0
        /\ ncalls > 1

\* C20: get_product of a stored product returns available_quantity =
\* stock_quantity - reserved_quantity, is_in_stock = (available_quantity > 0)
\* and is_low_stock = (available_quantity <= low_stock_threshold) of the row
\* stored at the call; of an id that is not stored it returns the error
\* "Product not found".
C20_GetProductDerived ==
    \A p \in Procs :
        Returned(p, "get_product")
        => IF frame[p].product_id \in DOMAIN inventory
           THEN LET row == inventory[frame[p].product_id]
                IN /\ ret[p].success
                   /\ ret[p].stock_quantity = row.stock_quantity
                   /\ ret[p].reserved_quantity = row.reserved_quantity
                   /\ ret[p].available_quantity =
                         row.stock_quantity - row.reserved_quantity
                   /\ ret[p].is_in_stock <=> ret[p].available_quantity > 0
                   /\ ret[p].is_low_stock <=>
                         ret[p].available_quantity <= row.low_stock_threshold
           ELSE /\ ~ret[p].success
                /\ ret[p].error = <<"Product not found">>

\* a product with units reserved and units left was read
C20_Witness ==
    \E p \in Procs :
        /\ Returned(p, "get_product")
        /\ ret[p].success
        /\ ret[p].reserved_quantity > 0
        /\ ret[p].is_in_stock

C22_NotFoundFails ==
    \A p \in Procs :
        /\ (/\ Returned(p, "release_reservation")
            /\ frame[p].reservation_id \notin DOMAIN base.reservations)
           => /\ ~ret[p].success
              /\ ret[p].error = <<"Reservation not found">>
              /\ Tables = base
        /\ (/\ Returned(p, "reserve_stock") \/ Returned(p, "update_stock")
            /\ frame[p].product_id \notin DOMAIN base.inventory)
           => /\ ~ret[p].success
              /\ ret[p].error = <<"Product not found">>
              /\ Tables = base

\* with a reservation and a stock movement stored, a product that is not
\* stored was asked for
C22_Witness ==
    \E p \in Procs :
        /\ Returned(p, "reserve_stock")
        /\ frame[p].product_id \notin DOMAIN base.inventory
        /\ frame[p].quantity >= 1
        /\ Len(reservations) + Len(stock_movements) >= 1
        /\ ~ret[p].success

\* the entries of a returned list that are of product id
Listed(result, id) == {r \in result.products : r.product_id = id}

\* C23: get_low_stock_products lists a product exactly when, in the store as
\* the call found it, it is stored, active, and its stock_quantity -
\* reserved_quantity is at most its low_stock_threshold; each listed product
\* is listed once, with that difference as available_quantity and that
\* threshold.
C23_LowStockListed ==
    \A p \in Procs :
        Returned(p, "get_low_stock_products")
        => /\ ret[p].success
           /\ \A id \in ProductIds :
                 IF /\ id \in DOMAIN base.inventory
                    /\ base.inventory[id].is_active
                    /\ base.inventory[id].stock_quantity - base.inventory[id].reserved_quantity
                          <= base.inventory[id].low_stock_threshold
                 THEN Listed(ret[p], id) =
                         {[product_id |-> id,
                           available_quantity |-> base.inventory[id].stock_quantity
                                                  - base.inventory[id].reserved_quantity,
                           threshold |-> base.inventory[id].low_stock_threshold]}
                 ELSE Listed(ret[p], id) = {}

\* one product was listed at its threshold, while another, active and above
\* its threshold, was not
C23_Witness ==
    \E p \in Procs :
        /\ Returned(p, "get_low_stock_products")
        /\ \E r \in ret[p].products : r.available_quantity = r.threshold
        /\ \E id \in DOMAIN base.inventory :
              /\ base.inventory[id].is_active
              /\ Listed(ret[p], id) = {}

FreshReservation ==
    /\ Len(reservations) >= 1
    /\ reservations[Len(reservations)].quantity >= 1
    /\ hist[Len(reservations)].before = 0

C27_StockBelowReserved ==
    \A p \in Procs :
        (/\ Returned(p, "update_stock")
         /\ frame[p].product_id \in DOMAIN base.inventory
         /\ LET row == base.inventory[frame[p].product_id]
            IN /\ row.stock_quantity + frame[p].quantity_change >= 0
               /\ row.stock_quantity + frame[p].quantity_change < row.reserved_quantity)
        => LET row == base.inventory[frame[p].product_id]
               got == GetProduct(frame[p].product_id)
           IN /\ ret[p].success
              /\ got.stock_quantity = row.stock_quantity + frame[p].quantity_change
              /\ got.reserved_quantity = row.reserved_quantity
              /\ got.available_quantity =
                    row.stock_quantity + frame[p].quantity_change - row.reserved_quantity
              /\ got.available_quantity < 0

\* stock that was reserved has been taken off
C27_Witness ==
    \E p \in Procs :
        /\ Returned(p, "update_stock")
        /\ ret[p].success
        /\ frame[p].quantity_change < 0
        /\ ret[p].new_stock < inventory[frame[p].product_id].reserved_quantity

\* reservation i is active and its deadline is reached
Expired(i) ==
    /\ reservations[i].status = "active"
    /\ reservations[i].expires_at <= now

\* C28: the passing of time changes no table; an active reservation whose
\* deadline is reached stays active in every step but the status update of a
\* release_reservation call for it; and while there is one, the
\* reserved_quantity of its product changes only by the update of a
\* release_reservation call or by the update of a reserve_stock call, which
\* adds its quantity to what was reserved and takes nothing off for the
\* deadline.
C28_ExpiryAdvisory ==
    [][/\ now' # now => /\ inventory' = inventory
                        /\ reservations' = reservations
                        /\ stock_movements' = stock_movements
       /\ \A i \in DOMAIN reservations :
             Expired(i)
             => /\ \/ reservations'[i].status = "active"
                   \/ \E p \in Procs : /\ pc[p] = "rl_status"
                                       /\ frame[p].reservation_id = i
                /\ LET id == reservations[i].product_id
                   IN inventory'[id].reserved_quantity # inventory[id].reserved_quantity
                      => \E p \in Procs :
                            \/ pc[p] = "rl_write"
                            \/ /\ pc[p] = "rs_write"
                               /\ inventory'[id].reserved_quantity =
                                     inventory[id].reserved_quantity + frame[p].quantity
      ]_vars

\* a reservation past its deadline still held the stock that a later
\* reserve_stock call was refused
C28_Witness ==
    \E p \in Procs :
        /\ Returned(p, "reserve_stock")
        /\ frame[p].quantity >= 1
        /\ ~ret[p].success
        /\ \E i \in DOMAIN reservations :
              /\ Expired(i)
              /\ reservations[i].quantity >= 1
              /\ reservations[i].product_id = frame[p].product_id

RECURSIVE ActiveQuantity(_, _, _)
\* the quantities of the active rows among rows 1..n that reference product_id
ActiveQuantity(rows, product_id, n) ==
    IF n = 0 THEN 0
    ELSE ActiveQuantity(rows, product_id, n - 1)
         + (IF rows[n].product_id = product_id /\ rows[n].status = "active"
            THEN rows[n].quantity ELSE 0)

\* C29: whenever no call is running, each product's reserved_quantity is the
\* sum of the quantities of the active reservations that reference it.
C29_ReservedIsActiveSum ==
    AllIdle
    => \A id \in DOMAIN inventory :
          inventory[id].reserved_quantity =
             ActiveQuantity(reservations, id, Len(reservations))

\* the products of inventory other than id are as they were when the call began
OthersKept(id) ==
    /\ DOMAIN inventory = DOMAIN base.inventory
    /\ \A o \in DOMAIN inventory : o # id => inventory[o] = base.inventory[o]

\* C30: reserve_stock and release_reservation leave every stock_quantity and
\* the stock movements as they were, update_stock leaves every
\* reserved_quantity and the reservations as they were, and each leaves every
\* product but the one it names (release_reservation: the one its reservation
\* references) as it was.
C30_FrameConditions ==
    \A p \in Procs :
        /\ (Returned(p, "reserve_stock") \/ Returned(p, "release_reservation"))
           => /\ stock_movements = base.stock_movements
              /\ DOMAIN inventory = DOMAIN base.inventory
              /\ \A id \in DOMAIN inventory :
                    inventory[id].stock_quantity = base.inventory[id].stock_quantity
        /\ Returned(p, "reserve_stock") => OthersKept(frame[p].product_id)
        /\ Returned(p, "release_reservation")
           => IF frame[p].reservation_id \in DOMAIN base.reservations
              THEN OthersKept(base.reservations[frame[p].reservation_id].product_id)
              ELSE inventory = base.inventory
        /\ Returned(p, "update_stock")
           => /\ reservations = base.reservations
              /\ OthersKept(frame[p].product_id)
              /\ \A id \in DOMAIN inventory :
                    inventory[id].reserved_quantity = base.inventory[id].reserved_quantity

\* with two products stored, one of them reserved, a stock was changed
C30_Witness ==
    \E p \in Procs :
        /\ Returned(p, "update_stock")
        /\ ret[p].success
        /\ frame[p].quantity_change # 0
        /\ \E id \in DOMAIN inventory :
              /\ id # frame[p].product_id
              /\ inventory[id].stock_quantity # ret[p].new_stock
        /\ Len(reservations) >= 1

====
